---- MODULE Spec2Model ----
(***************************************************************************)
(* NEArchiver (src/src/ne_scraper.py) driven by the ne_archive command     *)
(* (src/ne_archive.py): discovery of an author's listing pages, the        *)
(* batched submission of every post to the Wayback Machine, the back-off   *)
(* timer, and the three ways archive() ends.                               *)
(*                                                                         *)
(* Numbers that are floats in the program (the back-off timer and its      *)
(* bounds, in minutes) are exact rationals <<numerator, denominator>> in   *)
(* lowest terms: doubling, halving, min and max are exact on floats of     *)
(* this size, so the rational is the float's value.                        *)
(***************************************************************************)
EXTENDS Integers, Sequences, FiniteSets, TLC

\* ---------------------------------------------------------------- bounds
\* Largest page count the listing's pagination control announces.
MaxPages == 4
\* Largest number of post titles on one listing page.
MaxPerPage == 8
\* Largest number of posts of a listing (pages * posts per page).
MaxPosts == 32
\* Largest number of save() calls of one run that raise.
MaxFaults == 2
\* Largest number of timer calls of a back-off sequence (SpecBackoff).
MaxCalls == 12

\* Number of consecutive timer calls within which the timer must have
\* reached its bound.
MaxConverge == 8

\* ------------------------------------------------------ program constants
ONE_MINUTE == 60
\* "if not len(tasks) % 15"
BatchSize == 15
\* "max(60.0, max_backoff_override)"
DefaultMax == 60

\* -------------------------------------------------------------- rationals
RECURSIVE GCD(_, _)
GCD(a, b) == IF b = 0 THEN a ELSE GCD(b, a % b)

Abs(x) == IF x < 0 THEN -x ELSE x

\* n/d in lowest terms, d > 0.
Rat(n, d) == LET g == GCD(Abs(n), d) IN <<n \div g, d \div g>>

RatLess(p, q) == p[1] * q[2] < q[1] * p[2]

RatLeq(p, q) == p[1] * q[2] <= q[1] * p[2]

RatTimes(p, k) == Rat(p[1] * k, p[2])

RatHalf(p) == Rat(p[1], p[2] * 2)

\* Python's max(a, b) and min(a, b): the first argument unless the second
\* is strictly greater (smaller).
PyMax(a, b) == IF RatLess(a, b) THEN b ELSE a

PyMin(a, b) == IF RatLess(b, a) THEN b ELSE a

\* ------------------------------------------------------------ the inputs
\* --max-backoff-override values (minutes): the default 0.0, a negative one,
\* values below, at and above the built-in ceiling of 60, and a fraction.
Overrides ==
    {Rat(0, 1), Rat(-5, 1), Rat(45, 1), Rat(60, 1), Rat(61, 1),
     Rat(121, 2), Rat(64, 1), Rat(100, 1), Rat(120, 1), Rat(200, 1)}

\* The override of whole runs: the option's default. A run of MaxPosts
\* posts waits for at most two batches, so its timer stays far below every
\* ceiling and the run does not depend on the override; SpecBackoff takes
\* the timer through every override of Overrides.
RunOverrides == {Rat(0, 1)}

\* ---------------------------------------------------------------- state
VARIABLES
    pc,                 \* where archive() stands
    site,               \* the author's listing on the web site (environment)
    max_backoff_override, \* the --max-backoff-override given to __init__
    back_off_timer,     \* self._back_off_timer, minutes
    back_off_timer_max, \* self._back_off_timer_max
    total_page_numbers, \* archive()'s local, 0 before it is read
    tasks,              \* archive()'s local list of asyncio tasks
    fetch_order,        \* the pages in the order their fetches completed
    author_posts,       \* archive()'s local list of post titles
    idx,                \* posts the for loop has taken so far
    archived_page_urls, \* self._archived_page_urls
    outcome,            \* which report archive() logged
    emitted,            \* the archived URLs it logged after that report
    saved,              \* history: posts whose save() was called, in order
    faulted,            \* history: <<post index, exception>> of failed saves
    sleeps,             \* history: the arguments of time.sleep, in order
    calls               \* history: counts of timer calls and batch waits

vars == <<pc, site, max_backoff_override, back_off_timer, back_off_timer_max,
          total_page_numbers,
          tasks, fetch_order, author_posts, idx, archived_page_urls, outcome,
          emitted, saved, faulted, sleeps, calls>>

\* self._back_off_timer_min: set once in __init__, never assigned again.
back_off_timer_min == Rat(1, 1)

\* ----------------------------------------------------------- the web site
\* A listing: what the pagination control of page 1 announces (0: page 1
\* has no pagination control), how many post titles a page shows, and at
\* most one page that differs: it lacks the main column, or its main
\* column shows no post title.
Sites ==
    {[pagination |-> 0, per_page |-> 1, odd_page |-> 0, odd_kind |-> "none"]}
    \cup
    {[pagination |-> n, per_page |-> k, odd_page |-> 0, odd_kind |-> "none"] :
        n \in 1..MaxPages, k \in 0..MaxPerPage}
    \cup
    {[pagination |-> n, per_page |-> k, odd_page |-> o, odd_kind |-> kind] :
        n \in 1..MaxPages, k \in 1..MaxPerPage, o \in 1..MaxPages,
        kind \in {"nocontainer", "notitles"}}

SiteOk(s) == s.pagination * s.per_page <= MaxPosts /\ s.odd_page <= s.pagination

\* The post title elements of page p, top to bottom.
PageTitles(s, p) == [j \in 1..s.per_page |-> <<p, j>>]

\* The parsed page p: what the two find_all queries of the program return
\* on it, as lists in document order.
Soup(s, p) ==
    [pagination_items |-> [i \in 1..s.pagination |-> i],
     main_cols |->
        IF s.odd_page = p /\ s.odd_kind = "nocontainer" THEN <<>>
        ELSE IF s.odd_page = p /\ s.odd_kind = "notitles" THEN << <<>> >>
        ELSE << PageTitles(s, p) >>]

\* list.pop(): the last element, IndexError on an empty list.
Pop(list) ==
    IF list = <<>> THEN [exc |-> "IndexError"]
    ELSE [exc |-> "none", val |-> list[Len(list)]]

\* int(p1_soup.find_all("a", class_="mnmd-pagination__item").pop().get_text())
TotalPageNumbers(soup) == Pop(soup.pagination_items)

\* A _get_author_posts that takes a page without main column for a page
\* without posts.
get_author_posts_lenient(soup) ==
    IF soup.main_cols = <<>> THEN [exc |-> "none", val |-> <<>>]
    ELSE Pop(soup.main_cols)

\* _get_author_posts
get_author_posts(soup) == Pop(soup.main_cols)

\* A gather that returned the soups as the fetches completed.
GatherPagesAsCompleted(ts, order) == [i \in 1..Len(order) |-> Soup(site, order[i])]

\* asyncio.gather(*tasks) over the page fetches: the pages' soups in the
\* order of the tasks, whatever the order the fetches completed in.
GatherPages(ts, order) == [i \in 1..Len(ts) |-> Soup(site, ts[i].page)]

RECURSIVE Flatten(_)
Flatten(lists) ==
    IF lists = <<>> THEN <<>> ELSE Head(lists) \o Flatten(Tail(lists))

\* Lines 99-101: page 1's posts, extended by each remaining page's posts.
\* An IndexError of any page ends the extraction.
ExtractAuthorPosts(p1_soup, remaining_pages_soup) ==
    LET soups == <<p1_soup>> \o remaining_pages_soup
        got == [i \in 1..Len(soups) |-> get_author_posts(soups[i])]
    IN IF \E i \in 1..Len(got) : got[i].exc # "none"
       THEN [exc |-> "IndexError"]
       ELSE [exc |-> "none",
             val |-> Flatten([i \in 1..Len(got) |-> got[i].val])]

\* ------------------------------------------------------ the back-off timer
\* A doubling that forgets the ceiling.
increment_unclamped(timer, max) == RatTimes(timer, 2)

\* _increment_backoff_timer
increment_backoff_timer(timer, max) == PyMin(RatTimes(timer, 2), max)

\* A halving that forgets the floor.
decrement_unclamped(timer, min) == RatHalf(timer)

\* A halving that takes min() where the code takes max().
decrement_min_for_max(timer, min) == PyMin(RatHalf(timer), min)

\* _decrement_backoff_timer
decrement_backoff_timer(timer, min) == PyMax(RatHalf(timer), min)

\* A ceiling that is the override alone.
BackoffTimerMaxOverrideOnly(override) == override

\* __init__: max(60.0, max_backoff_override)
BackoffTimerMax(override) == PyMax(Rat(DefaultMax, 1), override)

\* time.sleep(self._back_off_timer * ONE_MINUTE)
SleepArg(timer) == RatTimes(timer, ONE_MINUTE)

\* A throttled pause that doubles the timer before it sleeps.
ThrottledPauseDoublesFirst(timer, max) ==
    [slept |-> SleepArg(increment_backoff_timer(timer, max)),
     timer |-> increment_backoff_timer(timer, max)]

\* Lines 122-123: sleep for the timer as it stands, then double it.
ThrottledPause(timer, max) ==
    [slept |-> SleepArg(timer), timer |-> increment_backoff_timer(timer, max)]

\* Lines 130-131: sleep for the timer as it stands, then halve it.
SuccessPause(timer, min) ==
    [slept |-> SleepArg(timer), timer |-> decrement_backoff_timer(timer, min)]

\* ------------------------------------------------------- the submissions
\* What save() returns for a post: the URL of its snapshot.
ArchivedUrl(post) == [snapshot_of |-> post]

\* The subsets of S with at most n elements.
RECURSIVE SmallSubsets(_, _)
SmallSubsets(S, n) ==
    IF n = 0 THEN {{}}
    ELSE LET smaller == SmallSubsets(S, n - 1)
         IN smaller \cup {T \cup {x} : T \in smaller, x \in S}

Pending(ts) == {i \in 1..Len(ts) : ts[i].result = "pending"}

\* What the archive API may do to the tasks of ts that have not run yet:
\* each save() returns, raises TooManyRequestsError or raises another
\* exception, at most MaxFaults raising in a run. A choice maps the indexes
\* (in ts) of the raising tasks to what they raise.
SaveChoices(ts) ==
    UNION {[T -> {"TooManyRequestsError", "Exception"}] :
            T \in SmallSubsets(Pending(ts), MaxFaults - Cardinality(faulted))}

\* The event loop runs every task that has not run yet, in creation
\* order, to its end (_archive never suspends): f says which raise.
RunTasks(ts, f) ==
    [i \in 1..Len(ts) |->
        IF ts[i].result # "pending" THEN ts[i]
        ELSE [ts[i] EXCEPT !.result = IF i \in DOMAIN f THEN f[i] ELSE "ok"]]

\* The posts whose tasks RunTasks runs, in that order.
RECURSIVE PendingPosts(_)
PendingPosts(ts) ==
    IF ts = <<>> THEN <<>>
    ELSE (IF Head(ts).result = "pending" THEN <<Head(ts).post>> ELSE <<>>)
         \o PendingPosts(Tail(ts))

NewFaults(ts, f) == {<<ts[i].idx, f[i]>> : i \in DOMAIN f}

\* A gather that raises the exception of the last task that raised.
GatherLastException(ts) ==
    LET raised == {i \in 1..Len(ts) : ts[i].result # "ok"}
    IN IF raised = {}
       THEN [exc |-> "none", val |-> [i \in 1..Len(ts) |-> ArchivedUrl(ts[i].post)]]
       ELSE [exc |-> ts[CHOOSE i \in raised : \A j \in raised : i >= j].result]

\* await asyncio.gather(*tasks) once every task of ts has run: the exception
\* of the first task (in list order) that raised, else every task's result
\* in list order.
Gather(ts) ==
    LET raised == {i \in 1..Len(ts) : ts[i].result # "ok"}
    IN IF raised = {}
       THEN [exc |-> "none", val |-> [i \in 1..Len(ts) |-> ArchivedUrl(ts[i].post)]]
       ELSE [exc |-> ts[CHOOSE i \in raised : \A j \in raised : i <= j].result]

\* A successful batch that leaves its tasks in the list.
ClearTasksForgotten(ts) == ts

\* tasks.clear()
ClearTasks(ts) == <<>>

\* archive() without its "except IndexError" clause.
ExceptHandlerNoIndexClause(exc, urls) ==
    IF urls # <<>> THEN [outcome |-> "partial", emitted |-> urls]
    ELSE [outcome |-> "failure", emitted |-> <<>>]

\* An "except Exception" clause that logs the exception and no URL.
ExceptHandlerNoDump(exc, urls) ==
    IF exc = "IndexError" THEN [outcome |-> "invalid", emitted |-> <<>>]
    ELSE IF urls # <<>> THEN [outcome |-> "partial", emitted |-> <<>>]
    ELSE [outcome |-> "failure", emitted |-> <<>>]

\* The except clauses of archive(), lines 137-149: the report and the URLs
\* logged after it.
ExceptHandler(exc, urls) ==
    IF exc = "IndexError" THEN [outcome |-> "invalid", emitted |-> <<>>]
    ELSE IF urls # <<>> THEN [outcome |-> "partial", emitted |-> urls]
    ELSE [outcome |-> "failure", emitted |-> <<>>]

\* A report after the loop that takes an empty accumulator for an invalid
\* author.
SuccessReportNeedsUrls(urls) ==
    IF urls = <<>> THEN [outcome |-> "invalid", emitted |-> <<>>]
    ELSE [outcome |-> "all", emitted |-> urls]

\* Lines 132-136: the report of the run that left the for loop.
SuccessReport(urls) == [outcome |-> "all", emitted |-> urls]

\* ---------------------------------------------------------------- Init
\* NEArchiver.__init__ for a command line, before archive() is awaited.
Construct(override, s) ==
    /\ pc = "start"
    /\ site = s
    /\ max_backoff_override = override
    /\ back_off_timer = Rat(1, 1)
    /\ back_off_timer_max = BackoffTimerMax(override)
    /\ total_page_numbers = 0
    /\ tasks = <<>>
    /\ fetch_order = <<>>
    /\ author_posts = <<>>
    /\ idx = 0
    /\ archived_page_urls = <<>>
    /\ outcome = "none"
    /\ emitted = <<>>
    /\ saved = <<>>
    /\ faulted = {}
    /\ sleeps = <<>>
    /\ calls = [throttled |-> 0, success |-> 0, waits |-> 0]

Init == \E o \in RunOverrides, s \in Sites : SiteOk(s) /\ Construct(o, s)

\* -------------------------------------------------------------- discovery
\* Every except clause ends archive(): its report and dump are logged.
Raise(exc) ==
    LET h == ExceptHandler(exc, archived_page_urls)
    IN /\ pc' = "reported"
       /\ outcome' = h.outcome
       /\ emitted' = h.emitted

\* Lines 82-86 on a first page without pagination control: pop() raises
\* IndexError before any task exists.
FirstPageInvalid ==
    /\ pc = "start"
    /\ TotalPageNumbers(Soup(site, 1)).exc = "IndexError"
    /\ Raise("IndexError")
    /\ UNCHANGED <<site, back_off_timer, back_off_timer_max, max_backoff_override,
                   total_page_numbers, tasks, fetch_order, author_posts, idx,
                   archived_page_urls, saved, faulted, sleeps, calls>>

\* Lines 82-97: the page count is read and one fetch task per page
\* 2..total_page_numbers is created.
FirstPageFetched ==
    /\ pc = "start"
    /\ LET n == TotalPageNumbers(Soup(site, 1))
       IN /\ n.exc = "none"
          /\ total_page_numbers' = n.val
          /\ tasks' = [i \in 1..(n.val - 1) |->
                          [page |-> i + 1, result |-> "pending"]]
    /\ pc' = "gather_pages"
    /\ UNCHANGED <<site, back_off_timer, back_off_timer_max, max_backoff_override, fetch_order,
                   author_posts, idx, archived_page_urls, outcome, emitted,
                   saved, faulted, sleeps, calls>>

\* One page fetch completes while archive() waits in gather (line 98); the
\* fetches complete in any order.
PageFetched ==
    /\ pc = "gather_pages"
    /\ \E i \in Pending(tasks) :
        /\ tasks' = [tasks EXCEPT ![i].result = "ok"]
        /\ fetch_order' = Append(fetch_order, tasks[i].page)
    /\ UNCHANGED <<pc, site, back_off_timer, back_off_timer_max, max_backoff_override,
                   total_page_numbers, author_posts, idx, archived_page_urls,
                   outcome, emitted, saved, faulted, sleeps, calls>>

\* Lines 98-101, every page having a main column.
PostsExtracted ==
    /\ pc = "gather_pages"
    /\ Pending(tasks) = {}
    /\ LET got == ExtractAuthorPosts(Soup(site, 1), GatherPages(tasks, fetch_order))
       IN /\ got.exc = "none"
          /\ author_posts' = got.val
    /\ pc' = "found"
    /\ UNCHANGED <<site, back_off_timer, back_off_timer_max, max_backoff_override,
                   total_page_numbers, tasks, fetch_order, idx,
                   archived_page_urls, outcome, emitted, saved, faulted,
                   sleeps, calls>>

\* Lines 98-101, a page lacking its main column: pop() raises IndexError.
ExtractionInvalid ==
    /\ pc = "gather_pages"
    /\ Pending(tasks) = {}
    /\ ExtractAuthorPosts(Soup(site, 1), GatherPages(tasks, fetch_order)).exc
          = "IndexError"
    /\ Raise("IndexError")
    /\ UNCHANGED <<site, back_off_timer, back_off_timer_max, max_backoff_override,
                   total_page_numbers, tasks, fetch_order, author_posts, idx,
                   archived_page_urls, saved, faulted, sleeps, calls>>

\* Lines 102-111: the count is logged and tasks is a new empty list.
StartArchiving ==
    /\ pc = "found"
    /\ tasks' = <<>>
    /\ fetch_order' = <<>>
    /\ pc' = "archiving"
    /\ UNCHANGED <<site, back_off_timer, back_off_timer_max, max_backoff_override,
                   total_page_numbers, author_posts, idx, archived_page_urls,
                   outcome, emitted, saved, faulted, sleeps, calls>>

\* ------------------------------------------------------------ the for loop
\* Line 113: the task of the next post joins the list.
NextTasks ==
    Append(tasks, [idx |-> idx + 1, post |-> author_posts[idx + 1],
                   result |-> "pending"])

InLoop == pc = "archiving" /\ idx < Len(author_posts)

\* A test that waits whenever the list holds a batch or more.
AtBatchWaitWhenFull == Len(NextTasks) >= BatchSize

\* A test that also waits at the last post of the listing.
AtBatchWaitOrLastPost ==
    Len(NextTasks) % BatchSize = 0 \/ idx + 1 = Len(author_posts)

\* Line 114
AtBatchWait == Len(NextTasks) % BatchSize = 0

\* An iteration that does not wait: lines 112-114.
SubmitPost ==
    /\ InLoop
    /\ ~AtBatchWait
    /\ tasks' = NextTasks
    /\ idx' = idx + 1
    /\ UNCHANGED <<pc, site, back_off_timer, back_off_timer_max, max_backoff_override,
                   total_page_numbers, fetch_order, author_posts,
                   archived_page_urls, outcome, emitted, saved, faulted,
                   sleeps, calls>>

\* An iteration whose gather returns: lines 112-116 and 126-131.
BatchSuccess ==
    /\ InLoop
    /\ AtBatchWait
    /\ \E f \in SaveChoices(NextTasks) :
        LET ran == RunTasks(NextTasks, f)
            got == Gather(ran)
        IN /\ got.exc = "none"
           /\ archived_page_urls' = archived_page_urls \o got.val
           /\ tasks' = ClearTasks(ran)
           /\ saved' = saved \o PendingPosts(NextTasks)
           /\ faulted' = faulted \cup NewFaults(NextTasks, f)
    /\ LET pause == SuccessPause(back_off_timer, back_off_timer_min)
       IN /\ sleeps' = Append(sleeps, pause.slept)
          /\ back_off_timer' = pause.timer
    /\ calls' = [calls EXCEPT !.success = @ + 1, !.waits = @ + 1]
    /\ idx' = idx + 1
    /\ UNCHANGED <<pc, site, back_off_timer_max, max_backoff_override, total_page_numbers,
                   fetch_order, author_posts, outcome, emitted>>

\* An iteration whose gather raises TooManyRequestsError: lines 112-125.
\* The list of tasks is kept as it is and the loop goes on to the next post.
BatchThrottled ==
    /\ InLoop
    /\ AtBatchWait
    /\ \E f \in SaveChoices(NextTasks) :
        LET ran == RunTasks(NextTasks, f)
        IN /\ Gather(ran).exc = "TooManyRequestsError"
           /\ tasks' = ran
           /\ saved' = saved \o PendingPosts(NextTasks)
           /\ faulted' = faulted \cup NewFaults(NextTasks, f)
    /\ LET pause == ThrottledPause(back_off_timer, back_off_timer_max)
       IN /\ sleeps' = Append(sleeps, pause.slept)
          /\ back_off_timer' = pause.timer
    /\ calls' = [calls EXCEPT !.throttled = @ + 1, !.waits = @ + 1]
    /\ idx' = idx + 1
    /\ UNCHANGED <<pc, site, back_off_timer_max, max_backoff_override, total_page_numbers,
                   fetch_order, author_posts, archived_page_urls, outcome,
                   emitted>>

\* An iteration whose gather raises another exception: lines 112-116, then
\* the except clause of lines 142-149.
BatchError ==
    /\ InLoop
    /\ AtBatchWait
    /\ \E f \in SaveChoices(NextTasks) :
        LET ran == RunTasks(NextTasks, f)
        IN /\ Gather(ran).exc = "Exception"
           /\ tasks' = ran
           /\ saved' = saved \o PendingPosts(NextTasks)
           /\ faulted' = faulted \cup NewFaults(NextTasks, f)
    /\ Raise("Exception")
    /\ calls' = [calls EXCEPT !.waits = @ + 1]
    /\ idx' = idx + 1
    /\ UNCHANGED <<site, back_off_timer, back_off_timer_max, max_backoff_override,
                   total_page_numbers, fetch_order, author_posts,
                   archived_page_urls, sleeps>>

\* Lines 132-136: the loop is over; whatever tasks are left in the list
\* are not waited for.
ReportAll ==
    /\ pc = "archiving"
    /\ idx = Len(author_posts)
    /\ LET r == SuccessReport(archived_page_urls)
       IN /\ outcome' = r.outcome
          /\ emitted' = r.emitted
    /\ pc' = "reported"
    /\ UNCHANGED <<site, back_off_timer, back_off_timer_max, max_backoff_override,
                   total_page_numbers, tasks, fetch_order, author_posts, idx,
                   archived_page_urls, saved, faulted, sleeps, calls>>

\* archive() has returned and asyncio.run ends the event loop: the tasks
\* that never ran run now (their save() is called), and nothing reads
\* what they return or raise.
LoopShutdown ==
    /\ pc = "reported"
    /\ \E f \in SaveChoices(tasks) :
        /\ tasks' = RunTasks(tasks, f)
        /\ faulted' = faulted \cup NewFaults(tasks, f)
    /\ saved' = saved \o PendingPosts(tasks)
    /\ pc' = "done"
    /\ UNCHANGED <<site, back_off_timer, back_off_timer_max, max_backoff_override,
                   total_page_numbers, fetch_order, author_posts, idx,
                   archived_page_urls, outcome, emitted, sleeps, calls>>

Next ==
    \/ FirstPageInvalid
    \/ FirstPageFetched
    \/ PageFetched
    \/ PostsExtracted
    \/ ExtractionInvalid
    \/ StartArchiving
    \/ SubmitPost
    \/ BatchSuccess
    \/ BatchThrottled
    \/ BatchError
    \/ ReportAll
    \/ LoopShutdown

Spec == Init /\ [][Next]_vars

\* ------------------------------------------- the timer under any sequence
\* A call of _increment_backoff_timer on a constructed archiver.
OnThrottled ==
    /\ calls.throttled + calls.success < MaxCalls
    /\ back_off_timer' = increment_backoff_timer(back_off_timer, back_off_timer_max)
    /\ calls' = [calls EXCEPT !.throttled = @ + 1]
    /\ UNCHANGED <<pc, site, back_off_timer_max, max_backoff_override, total_page_numbers, tasks,
                   fetch_order, author_posts, idx, archived_page_urls,
                   outcome, emitted, saved, faulted, sleeps>>

\* A call of _decrement_backoff_timer on a constructed archiver.
OnBatchSuccess ==
    /\ calls.throttled + calls.success < MaxCalls
    /\ back_off_timer' = decrement_backoff_timer(back_off_timer, back_off_timer_min)
    /\ calls' = [calls EXCEPT !.success = @ + 1]
    /\ UNCHANGED <<pc, site, back_off_timer_max, max_backoff_override, total_page_numbers, tasks,
                   fetch_order, author_posts, idx, archived_page_urls,
                   outcome, emitted, saved, faulted, sleeps>>

InitBackoff ==
    \E o \in Overrides :
        Construct(o, [pagination |-> 0, per_page |-> 1, odd_page |-> 0,
                      odd_kind |-> "none"])

NextBackoff == OnThrottled \/ OnBatchSuccess

SpecBackoff == InitBackoff /\ [][NextBackoff]_vars

\* ------------------------------------------------------------ the claims
Ceil(n, d) == (n + d - 1) \div d

\* The posts of the first b batches of the listing, in listing order.
FirstBatches(b) == [j \in 1..(BatchSize * b) |-> ArchivedUrl(author_posts[j])]

\* How many entries of the accumulator are the snapshot of a post.
ResultsOf(post) ==
    Cardinality({i \in 1..Len(archived_page_urls) :
                    archived_page_urls[i] = ArchivedUrl(post)})

\* C1: after a batch wait failed with the rate-limit signal, no post of a
\* later batch gets a task as long as a post of the throttled batch (the
\* first BatchSize tasks of the list, which were waited for) has no
\* ArchivedResult; the batch is retried before the loop moves on.
C1_ThrottledBatchRetried ==
    (/\ pc = "archiving"
     /\ calls.throttled > 0
     /\ \E i \in 1..BatchSize : ResultsOf(tasks[i].post) = 0)
    => Len(tasks) <= BatchSize

\* C2: a run over N posts in which no save() raises waits for ceil(N/15)
\* batches, calls on_batch_success once per batch and ends with N
\* ArchivedResults.
C2_AllBatchesArchived ==
    (pc = "done" /\ outcome = "all" /\ faulted = {})
    => /\ calls.waits = Ceil(Len(author_posts), BatchSize)
       /\ calls.success = Ceil(Len(author_posts), BatchSize)
       /\ Len(archived_page_urls) = Len(author_posts)

\* C3: when exactly one save() of a run raised, it raised
\* TooManyRequestsError and its batch was waited for, then on_throttled was
\* called exactly once and every post of that batch has exactly one
\* ArchivedResult at the end of the run.
C3_ThrottledOnceArchivedOnce ==
    \A i \in 1..(BatchSize * (Len(author_posts) \div BatchSize)) :
        (pc = "done" /\ faulted = {<<i, "TooManyRequestsError">>})
        => /\ calls.throttled = 1
           /\ \A j \in 1..Len(author_posts) :
                Ceil(j, BatchSize) = Ceil(i, BatchSize)
                => ResultsOf(author_posts[j]) = 1

\* C4: the timer starts at the floor and stays between the floor and the
\* ceiling under every sequence of on_throttled and on_batch_success calls,
\* for every override.
C4_TimerWithinBounds ==
    /\ RatLeq(back_off_timer_min, back_off_timer)
    /\ RatLeq(back_off_timer, back_off_timer_max)
    /\ (calls.throttled + calls.success = 0 => back_off_timer = back_off_timer_min)

\* C4's case: the timer stands at a ceiling raised by the override, after
\* calls of both kinds.
C4_Witness ==
    /\ back_off_timer = back_off_timer_max
    /\ RatLess(Rat(DefaultMax, 1), back_off_timer_max)
    /\ calls.throttled > 0
    /\ calls.success > 0

\* C5: when the run reports "All N successfully archived", the URLs it
\* logs are as many as the posts it discovered.
C5_AllMeansAll ==
    outcome = "all" => Len(emitted) = Len(author_posts)

\* C6: when the only save() that raised in a run raised a generic exception
\* for a post of batch b >= 2, the run ends reporting as partial success
\* exactly the results of the first b-1 batches, and no post of a batch
\* after b was submitted.
C6_PartialAfterGenericError ==
    \A i \in (BatchSize + 1)..Len(author_posts) :
        (pc = "done" /\ faulted = {<<i, "Exception">>})
        => /\ outcome = "partial"
           /\ emitted = FirstBatches(Ceil(i, BatchSize) - 1)
           /\ Len(saved) <= BatchSize * Ceil(i, BatchSize)

\* C7: on a listing whose first page has no pagination control the run
\* reports "invalid author", no save() is ever called and nothing is
\* accumulated or logged as archived.
C7_NoPaginationInvalidAuthor ==
    site.pagination = 0
    => /\ saved = <<>>
       /\ tasks = <<>>
       /\ archived_page_urls = <<>>
       /\ emitted = <<>>
       /\ (pc # "start" => outcome = "invalid")

\* C7's case: such a run has ended.
C7_Witness ==
    site.pagination = 0 /\ pc = "done" /\ outcome = "invalid"

\* C8: whichever way the run ended, the URLs logged at the end are the
\* whole accumulator.
C8_AccumulatorEmitted ==
    pc \in {"reported", "done"} => emitted = archived_page_urls

\* C8's case: a run ended by a generic exception after a batch had been
\* accumulated.
C8_Witness ==
    pc = "done" /\ outcome = "partial" /\ Len(archived_page_urls) >= BatchSize

\* C9: on a listing of n pages with k posts each, discovery yields the
\* n*k posts page by page in ascending page order, each page's posts in
\* page order, in whatever order the page fetches completed.
C9_DiscoveryOrder ==
    (pc \in {"found", "archiving"} /\ site.odd_page = 0)
    => /\ Len(author_posts) = site.pagination * site.per_page
       /\ \A p \in 1..site.pagination, j \in 1..site.per_page :
            author_posts[(p - 1) * site.per_page + j] = <<p, j>>

\* C9's case: the posts were extracted after the fetches of pages 2..4
\* completed in descending order.
C9_Witness ==
    /\ pc = "found"
    /\ fetch_order = <<4, 3, 2>>
    /\ site.odd_page = 0
    /\ site.per_page >= 2

\* C10: every ArchivedResult of the accumulator is the snapshot of exactly
\* one post whose save() was called, and no post has two ArchivedResults.
C10_OneResultPerPost ==
    /\ \A i \in 1..Len(archived_page_urls) :
        Cardinality({j \in 1..Len(saved) :
                        archived_page_urls[i] = ArchivedUrl(saved[j])}) = 1
    /\ \A i, j \in 1..Len(archived_page_urls) :
        archived_page_urls[i] = archived_page_urls[j] => i = j

\* C10's case: one batch was accumulated and the next one, submitted too,
\* was throttled.
C10_Witness ==
    /\ calls.throttled > 0
    /\ Len(archived_page_urls) = BatchSize
    /\ Len(saved) = 2 * BatchSize

\* The timer after n consecutive _increment_backoff_timer calls.
RECURSIVE ThrottledTimes(_, _, _)
ThrottledTimes(timer, max, n) ==
    IF n = 0 THEN timer
    ELSE ThrottledTimes(increment_backoff_timer(timer, max), max, n - 1)

\* The timer after n consecutive _decrement_backoff_timer calls.
RECURSIVE SucceededTimes(_, _, _)
SucceededTimes(timer, min, n) ==
    IF n = 0 THEN timer
    ELSE SucceededTimes(decrement_backoff_timer(timer, min), min, n - 1)

\* C11: from every timer value a sequence of calls can reach, some number of
\* consecutive on_throttled calls (at most MaxConverge) brings the timer to
\* exactly the ceiling and every further one keeps it there, and some
\* number of consecutive on_batch_success calls brings it to exactly the
\* floor and every further one keeps it there.
C11_TimerConverges ==
    /\ \E n \in 0..MaxConverge :
        \A m \in n..(MaxConverge + 1) :
            ThrottledTimes(back_off_timer, back_off_timer_max, m) = back_off_timer_max
    /\ \E n \in 0..MaxConverge :
        \A m \in n..(MaxConverge + 1) :
            SucceededTimes(back_off_timer, back_off_timer_min, m) = back_off_timer_min

\* C11's case: the timer stands strictly between its bounds, at a value
\* that is no power of two, after calls of both kinds.
C11_Witness ==
    /\ back_off_timer = Rat(15, 2)
    /\ calls.throttled > 0
    /\ calls.success > 0

\* C12: an on_batch_success call made while the timer is at the floor
\* leaves the timer as it is.
C12_FloorIdempotent ==
    [][(calls'.success = calls.success + 1 /\ back_off_timer = back_off_timer_min)
        => back_off_timer' = back_off_timer]_vars

\* C12's case: on_batch_success has been called on a timer that never left
\* the floor.
C12_Witness ==
    /\ calls.success >= 2
    /\ calls.throttled = 0
    /\ back_off_timer = back_off_timer_min

\* C13: the ceiling is the greater of 60 and the override: never below 60,
\* never below the override, one of the two, 60 for every override below
\* 60; the floor is 1.
C13_CeilingIsGreaterOf60AndOverride ==
    /\ RatLeq(Rat(60, 1), back_off_timer_max)
    /\ RatLeq(max_backoff_override, back_off_timer_max)
    /\ back_off_timer_max \in {Rat(60, 1), max_backoff_override}
    /\ (RatLess(max_backoff_override, Rat(60, 1)) => back_off_timer_max = Rat(60, 1))
    /\ back_off_timer_min = Rat(1, 1)

\* C13's case: an override above 60 raised the ceiling and the timer has
\* climbed to it.
C13_Witness ==
    /\ max_backoff_override = Rat(121, 2)
    /\ back_off_timer_max = Rat(121, 2)
    /\ back_off_timer = back_off_timer_max

\* C14 as stated: on a listing with a pagination control and a page that
\* lacks the main column or shows no post title, the run ends with the
\* general failure report, not with the "invalid author" report.
C14_PageParseFailsGenerically ==
    (site.odd_page > 0 /\ pc = "done") => outcome \in {"failure", "partial"}

\* C14 amended: a page without main column ends the run with the same
\* "invalid author" report as a missing pagination control, before any
\* save() and with nothing logged as archived; a main column without post
\* titles raises nothing: the page adds no post, discovery succeeds, and a
\* failure report can then only come from a save() that raised.
C14_MissingColumnIsInvalidAuthor ==
    /\ (site.odd_kind = "nocontainer" /\ pc \in {"reported", "done"})
       => (outcome = "invalid" /\ saved = <<>> /\ emitted = <<>>)
    /\ site.odd_kind = "notitles"
       => /\ outcome # "invalid"
          /\ (pc \in {"found", "archiving", "reported", "done"}
              => Len(author_posts) = (site.pagination - 1) * site.per_page)
          /\ (outcome \in {"failure", "partial"}
              => \E x \in faulted : x[2] = "Exception")

\* C14's case: page 2 of a listing lacks its main column and the run has
\* ended.
C14_Witness ==
    /\ site.odd_kind = "nocontainer"
    /\ site.odd_page = 2
    /\ pc = "done"
    /\ outcome = "invalid"

\* Discovery succeeded on the listing and found no post: there is a
\* pagination control, every page has its main column, no page shows a
\* post title.
NoPostsFound ==
    /\ site.pagination > 0
    /\ site.odd_kind # "nocontainer"
    /\ pc \in {"reported", "done"}
    /\ author_posts = <<>>

\* C15 as stated: when discovery succeeds with zero posts the run reports
\* "invalid author" and calls no save().
C15_NoPostsIsInvalidAuthor ==
    NoPostsFound => (outcome = "invalid" /\ saved = <<>>)

\* C15 amended: when discovery succeeds with zero posts the run reports
\* complete success ("All 0 successfully archived") with an empty list of
\* URLs, and calls no save() and waits for no batch.
C15_NoPostsIsSuccess ==
    NoPostsFound
    => /\ outcome = "all"
       /\ emitted = <<>>
       /\ saved = <<>>
       /\ calls.waits = 0

\* C15's case: a listing of several pages, none showing a post, whose run
\* has ended.
C15_Witness ==
    /\ NoPostsFound
    /\ site.pagination >= 2
    /\ pc = "done"
    /\ outcome = "all"

C17_BoundedWaits ==
    /\ [](/\ idx <= Len(author_posts)
          /\ calls.waits = idx \div BatchSize
          /\ calls.waits <= Len(author_posts) \div BatchSize
          /\ calls.throttled <= calls.waits)
    /\ [][pc = "archiving" => (idx' = idx + 1 \/ pc' = "reported")]_vars

\* C17's case: a run over 32 posts in which every batch wait was throttled
\* has ended.
C17_Witness ==
    /\ pc = "done"
    /\ Len(author_posts) = 32
    /\ calls.throttled = 2
    /\ calls.waits = 2

\* C18: the accumulator always holds a whole number of batches, at most
\* floor(N/15) of them, and never a result of a post of the trailing group
\* (the posts after the last full batch; every post when N < 15).
C18_WholeBatchesOnly ==
    LET full == BatchSize * (Len(author_posts) \div BatchSize)
    IN /\ Len(archived_page_urls) % BatchSize = 0
       /\ Len(archived_page_urls) <= full
       /\ \A j \in (full + 1)..Len(author_posts) : ResultsOf(author_posts[j]) = 0

\* C18's case: a run over 32 posts has ended with the results of two
\* batches, after the save() of every one of the 32 posts was called.
C18_Witness ==
    /\ pc = "done"
    /\ Len(author_posts) = 32
    /\ Len(saved) = 32
    /\ Len(archived_page_urls) = 30

\* C19: once a batch wait has been throttled, no step empties or shortens the
\* list of tasks, the accumulator stays as it is, no batch succeeds, every
\* later batch wait is throttled too and the timer never decreases.
C19_ThrottledForGood ==
    [][calls.throttled > 0
        => /\ Len(tasks') >= Len(tasks)
           /\ archived_page_urls' = archived_page_urls
           /\ calls'.success = calls.success
           /\ (calls'.waits # calls.waits => calls'.throttled = calls.throttled + 1)
           /\ RatLeq(back_off_timer, back_off_timer')]_vars

\* C19's case: after a throttled first batch a save() of the second batch
\* raised a generic exception, the second wait was throttled all the same,
\* and the run has ended with nothing accumulated.
C19_Witness ==
    /\ pc = "done"
    /\ calls.throttled = 2
    /\ \E x \in faulted : x[1] > BatchSize /\ x[1] <= 2 * BatchSize /\ x[2] = "Exception"
    /\ archived_page_urls = <<>>
    /\ back_off_timer = Rat(4, 1)

====
